---- MODULE Spec2Model ----
(***************************************************************************)
(* Model of web-ingestion/app/consumer-sfmc.py: the Kafka consumer loop,   *)
(* the event router, the immediate forwarder, the per-JourneyID window     *)
(* aggregator with its threading.Timer flushes, and the signal handler.    *)
(*                                                                         *)
(* Threads: the consumer thread (consume_messages), one Timer thread per   *)
(* window (export_bulk_events), the main thread (signal.pause, then        *)
(* signal_handler).  Python lists are heap objects: bulk_events maps a key *)
(* to a list reference and a flushing timer keeps the reference it popped. *)
(*                                                                         *)
(* Specifications, all over the same variables and the same actions:       *)
(*   Spec         startup, consumer, Timers, one termination signal;       *)
(*   FairSpec     Spec with the threads around bulk_lock scheduled fairly; *)
(*   ProgressSpec Spec with every thread of the program scheduled fairly;  *)
(*   ShutdownSpec Spec plus signals delivered while the handler runs;      *)
(*   AuthSpec     startup, the token renewal thread, the stream path;      *)
(*   CsvSpec      generate_csv applied to event lists with mixed fields.   *)
(***************************************************************************)
EXTENDS Integers, Sequences, FiniteSets, TLC

\* ------------------------------------------------------------------ bounds
\* Number of consumer.poll() calls that return a message within one run.
MaxPolls == 3
\* Number of periodic authenticate_with_sfmc calls within one run.
MaxRenewals == 2
\* Number of termination signals delivered within one run.
MaxSignals == 2
\* Length of the event lists handed to generate_csv on its own.
MaxCsvEvents == 3

\* ------------------------------------------------------------- value sets
\* JourneyID values of the events on the topic.
Keys == {"J1", "J2"}

\* event_data.get('type'): the two routed values and one unrouted value.
Types == {"stream", "bulk", "click"}

\* Outcomes of requests.post in send_to_sfmc: status 200, another status,
\* or an exception raised by the HTTP call.
PostOutcomes == {"ok", "http_error", "network_error"}

TimerIds == 1 .. MaxPolls
ListIds == 1 .. MaxPolls
\* The list `[]` that bulk_events.pop(journey_id, []) returns for an absent key.
DefaultList == 0

\* bulk_lock owners: nobody, the consumer thread, or Timer thread t (t >= 1).
Free == -1
ConsumerThread == 0

NoMsg == [kind |-> "none", id |-> 0, type |-> "-", JourneyID |-> "-"]

\* sfmc_access_token = None (line 135); the n-th successful authentication
\* stores token n.
NoToken == 0

\* temp_cafile.name, temp_certfile.name, temp_keyfile.name, in the order
\* signal_handler unlinks them.
TempFiles == <<"cafile", "certfile", "keyfile">>

\* Field names an event dict can carry.  Every event the consumer routes has
\* the two the program reads.
BaseFields == {"type", "JourneyID"}
ExtraFields == {"email", "score"}

\* No file at /tmp/{journey_id}.csv.
NoFile == [header |-> {}, rows |-> <<>>]

VARIABLES
    \* consumer thread
    cpc,          \* position of consume_messages / handle_event / add_bulk_event
    cmsg,         \* the msg returned by the last consumer.poll()
    polls,        \* number of polls that have returned
    consumerOpen, \* the Kafka consumer has not been closed
    \* window aggregator (module globals)
    bulk_events,  \* journey_id -> list reference
    bulk_timers,  \* journey_id -> Timer
    bulk_lock,    \* owner of bulk_lock
    heap,         \* list reference -> contents
    nextList,     \* lists allocated by `bulk_events[journey_id] = []`
    nextTimer,    \* Timers constructed
    timers,       \* Timer id -> [key, st, events, finished]
    \* main thread
    mainpc,
    deleted,      \* temp files (indices of TempFiles) that os.unlink removed
    nsignals,     \* termination signals delivered
    \* SFMC token (module global) and the renewal thread
    sfmc_access_token,
    rpc,          \* position of renew_sfmc_token_periodically
    renewals,     \* outcomes of its authenticate_with_sfmc calls, in order
    \* local storage
    files,        \* journey_id -> content of /tmp/{journey_id}.csv
    \* generate_csv called on its own
    csvIn,        \* the events argument
    csvOut,       \* [st, header, rows]: what the call left
    \* observations of calls made
    handled,      \* events passed to handle_event, in order
    sent,         \* send_to_sfmc calls: [ev, outcome, token]
    appended,     \* line 255 appends: [ev, list, timer]
    exports,      \* generate_csv calls: [key, events, timer]
    log           \* error reports: logging.error records and printed errors

vars == <<cpc, cmsg, polls, consumerOpen, bulk_events, bulk_timers, bulk_lock,
          heap, nextList, nextTimer, timers, mainpc, handled, sent, appended,
          exports, log, deleted, nsignals, sfmc_access_token,
          rpc, renewals, files, csvIn, csvOut>>

authVars == <<sfmc_access_token, rpc, renewals>>
shutdownVars == <<deleted, nsignals>>
csvVars == <<csvIn, csvOut>>
\* What neither the consumer thread nor a Timer thread writes.
envVars == <<authVars, shutdownVars, csvVars>>

windowVars == <<bulk_events, bulk_timers, heap, nextList, nextTimer>>

\* The event dict decoded from a message value.
Event(m) == [id |-> m.id, type |-> m.type, JourneyID |-> m.JourneyID]

\* Mutant: the consumer thread and its Timers are not daemon threads and
\* outlive the main thread.
Running_NonDaemon == TRUE

\* The process is alive: sys.exit / an uncaught exception in the main thread
\* ends it and kills the daemon threads (consumer thread and the Timers it made).
Running == mainpc \notin {"exited", "crashed"}

\* The module globals and threads as the interpreter reaches line 173.
InitProgram ==
    /\ cpc = "unstarted"
    /\ cmsg = NoMsg
    /\ polls = 0
    /\ consumerOpen = TRUE
    /\ bulk_events = [k \in {} |-> DefaultList]
    /\ bulk_timers = [k \in {} |-> 0]
    /\ bulk_lock = Free
    /\ heap = [l \in {DefaultList} \cup ListIds |-> <<>>]
    /\ nextList = 0
    /\ nextTimer = 0
    /\ timers = [t \in TimerIds |->
                    [key |-> "-", st |-> "unused", events |-> DefaultList,
                     finished |-> FALSE]]
    /\ mainpc = "auth"
    /\ handled = <<>>
    /\ sent = <<>>
    /\ appended = <<>>
    /\ exports = <<>>
    /\ log = <<>>
    /\ deleted = {}
    /\ nsignals = 0
    /\ sfmc_access_token = NoToken
    /\ rpc = "unstarted"
    /\ renewals = <<>>
    /\ files = [k \in Keys |-> NoFile]

NoCsvCall == [st |-> "uncalled", header |-> {}, rows |-> <<>>]

Init ==
    /\ InitProgram
    /\ csvIn = <<>>
    /\ csvOut = NoCsvCall

\* ------------------------------------------------------------- dict helpers
\* d[k] = v on a dict.
DictSet(d, k, v) == [x \in DOMAIN d \cup {k} |-> IF x = k THEN v ELSE d[x]]

\* d.pop(k) on a dict that has k: the dict without k.
DictDel(d, k) == [x \in DOMAIN d \ {k} |-> d[x]]

LogError(what) == log' = Append(log, what)

\* ---------------------------------------------------------- consume_messages
\* consumer.poll(timeout=1.0) returned None: `continue`, nothing changes.
PollNone ==
    /\ Running /\ cpc = "poll" /\ consumerOpen
    /\ UNCHANGED vars

\* poll returned a message with msg.error() set (partition EOF or another
\* error).  Line 216 evaluates KafkaException._PARTITION_EOF, an attribute the
\* exception class does not have (it belongs to KafkaError), so both kinds
\* raise; the fatal kind also raises at line 219.  The except clause of
\* consume_messages, which encloses the whole loop, logs and the loop is over.
PollError(kind) ==
    /\ Running /\ cpc = "poll" /\ consumerOpen /\ polls < MaxPolls
    /\ polls' = polls + 1
    /\ cmsg' = [NoMsg EXCEPT !.kind = kind, !.id = polls + 1]
    /\ LogError("consume_error")
    /\ cpc' = "finally"
    /\ UNCHANGED <<consumerOpen, windowVars, bulk_lock, timers, mainpc,
                   handled, sent, appended, exports>>
    /\ UNCHANGED <<envVars, files>>

\* poll returned a message whose value is not JSON: json.loads raises at
\* line 221, inside the try that encloses the loop.
PollMalformed ==
    /\ Running /\ cpc = "poll" /\ consumerOpen /\ polls < MaxPolls
    /\ polls' = polls + 1
    /\ cmsg' = [NoMsg EXCEPT !.kind = "malformed", !.id = polls + 1]
    /\ LogError("consume_error")
    /\ cpc' = "finally"
    /\ UNCHANGED <<consumerOpen, windowVars, bulk_lock, timers, mainpc,
                   handled, sent, appended, exports>>
    /\ UNCHANGED <<envVars, files>>

\* poll returned a message whose value decodes: handle_event(event_data) is
\* called (line 223).
PollValid(type, key) ==
    /\ Running /\ cpc = "poll" /\ consumerOpen /\ polls < MaxPolls
    /\ polls' = polls + 1
    /\ cmsg' = [kind |-> "valid", id |-> polls + 1, type |-> type,
                JourneyID |-> key]
    /\ handled' = Append(handled, Event(cmsg'))
    /\ cpc' = "handle"
    /\ UNCHANGED <<consumerOpen, windowVars, bulk_lock, timers, mainpc,
                   sent, appended, exports, log>>
    /\ UNCHANGED <<envVars, files>>

\* poll on a consumer that signal_handler has closed raises RuntimeError.
PollClosed ==
    /\ Running /\ cpc = "poll" /\ ~consumerOpen
    /\ LogError("consume_error")
    /\ cpc' = "finally"
    /\ UNCHANGED <<cmsg, polls, consumerOpen, windowVars, bulk_lock, timers,
                   mainpc, handled, sent, appended, exports>>
    /\ UNCHANGED <<envVars, files>>

\* finally: consumer.close().  The consumer thread ends here whether or not
\* the close of an already closed consumer raises.
ConsumerFinally ==
    /\ Running /\ cpc = "finally"
    /\ consumerOpen' = FALSE
    /\ cpc' = "dead"
    /\ UNCHANGED <<cmsg, polls, windowVars, bulk_lock, timers, mainpc,
                   handled, sent, appended, exports, log>>
    /\ UNCHANGED <<envVars, files>>

\* ---------------------------------------------------------------- handle_event
\* Mutant: every event is filed under one key.
JourneyOf_Fixed(ev) == "J1"

\* journey_id = event_data.get('JourneyID')
JourneyOf(ev) == ev.JourneyID

\* Mutant: bulk events take the stream branch too.
Route_BulkForwarded(ev) ==
    IF ev.type \in {"stream", "bulk"} THEN "send" ELSE "poll"

\* The branch handle_event takes on event_data.get('type').
Route(ev) ==
    IF ev.type = "stream" THEN "send"
    ELSE IF ev.type = "bulk" THEN "add_acquire"
    ELSE "poll"

HandleEvent ==
    /\ Running /\ cpc = "handle"
    /\ cpc' = Route(Event(cmsg))
    /\ UNCHANGED <<cmsg, polls, consumerOpen, windowVars, bulk_lock, timers,
                   mainpc, handled, sent, appended, exports, log>>
    /\ UNCHANGED <<envVars, files>>

\* ---------------------------------------------------------------- send_to_sfmc
\* One requests.post; a status other than 200 is logged, an exception raised
\* by the call propagates to the except clause of consume_messages.
SendToSfmc(outcome) ==
    /\ Running /\ cpc = "send"
    /\ sent' = Append(sent, [ev |-> Event(cmsg), outcome |-> outcome,
                             token |-> sfmc_access_token])
    /\ IF outcome = "ok"
         THEN cpc' = "poll" /\ UNCHANGED log
         ELSE IF outcome = "http_error"
           THEN cpc' = "poll" /\ LogError("sfmc_error")
           ELSE cpc' = "finally" /\ LogError("consume_error")
    /\ UNCHANGED <<cmsg, polls, consumerOpen, windowVars, bulk_lock, timers,
                   mainpc, handled, appended, exports>>
    /\ UNCHANGED <<envVars, files>>

\* -------------------------------------------------------------- add_bulk_event
\* Mutant: the membership test is lost and every bulk event starts a window.
NeedsWindow_Always(k) == TRUE

\* line 251: journey_id not in bulk_events
NeedsWindow(k) == k \notin DOMAIN bulk_events

\* Mutant: the append goes to the list last detached for the key when there
\* is one (a list reference kept across the flush).
AppendTarget_Stale(k) ==
    IF \E t \in TimerIds : timers[t].key = k /\ timers[t].events # DefaultList
      THEN timers[CHOOSE t \in TimerIds :
                     timers[t].key = k /\ timers[t].events # DefaultList].events
      ELSE bulk_events[k]

\* line 255: the list bulk_events[journey_id] evaluates to, under the lock.
AppendTarget(k) == bulk_events[k]

\* Mutant: a sliding window, an event for an open window arms a new Timer.
AddAcquire_Sliding ==
    /\ Running /\ cpc = "add_acquire" /\ bulk_lock = Free
    /\ bulk_lock' = ConsumerThread
    /\ cpc' = IF NeedsWindow(JourneyOf(Event(cmsg))) THEN "add_create"
              ELSE "add_timer"
    /\ UNCHANGED <<cmsg, polls, consumerOpen, windowVars, timers, mainpc,
                   handled, sent, appended, exports, log>>
    /\ UNCHANGED <<envVars, files>>

\* `with bulk_lock:` entered, and the test of line 251 made.
AddAcquire ==
    /\ Running /\ cpc = "add_acquire" /\ bulk_lock = Free
    /\ bulk_lock' = ConsumerThread
    /\ cpc' = IF NeedsWindow(JourneyOf(Event(cmsg))) THEN "add_create"
              ELSE "add_append"
    /\ UNCHANGED <<cmsg, polls, consumerOpen, windowVars, timers, mainpc,
                   handled, sent, appended, exports, log>>
    /\ UNCHANGED <<envVars, files>>

\* line 252: bulk_events[journey_id] = []
AddCreate ==
    /\ Running /\ cpc = "add_create"
    /\ nextList' = nextList + 1
    /\ bulk_events' = DictSet(bulk_events, JourneyOf(Event(cmsg)), nextList + 1)
    /\ heap' = [heap EXCEPT ![nextList + 1] = <<>>]
    /\ cpc' = "add_timer"
    /\ UNCHANGED <<cmsg, polls, consumerOpen, bulk_timers, bulk_lock, nextTimer,
                   timers, mainpc, handled, sent, appended, exports, log>>
    /\ UNCHANGED <<envVars, files>>

\* Mutant: the Timer is constructed and stored but start() is never called.
StartedTimer_NotStarted(k) ==
    [key |-> k, st |-> "created", events |-> DefaultList, finished |-> FALSE]

\* lines 253-254: threading.Timer(120, export_bulk_events, [journey_id]),
\* started: its thread waits for the interval.
StartedTimer(k) ==
    [key |-> k, st |-> "waiting", events |-> DefaultList, finished |-> FALSE]

\* lines 253-254: a Timer for export_bulk_events(journey_id) is stored and started.
AddTimer ==
    /\ Running /\ cpc = "add_timer"
    /\ nextTimer' = nextTimer + 1
    /\ timers' = [timers EXCEPT ![nextTimer + 1] =
                    StartedTimer(JourneyOf(Event(cmsg)))]
    /\ bulk_timers' = DictSet(bulk_timers, JourneyOf(Event(cmsg)), nextTimer + 1)
    /\ cpc' = "add_append"
    /\ UNCHANGED <<cmsg, polls, consumerOpen, bulk_events, bulk_lock, heap,
                   nextList, mainpc, handled, sent, appended, exports, log>>
    /\ UNCHANGED <<envVars, files>>

\* line 255: bulk_events[journey_id].append(event_data), and the end of
\* `with bulk_lock:`; handle_event returns to the poll loop.
AddAppend ==
    /\ Running /\ cpc = "add_append" /\ bulk_lock = ConsumerThread
    /\ LET k == JourneyOf(Event(cmsg))
           l == AppendTarget(k)
       IN /\ heap' = [heap EXCEPT ![l] = Append(@, Event(cmsg))]
          /\ appended' = Append(appended,
                [ev |-> Event(cmsg), list |-> l,
                 timer |-> IF k \in DOMAIN bulk_timers THEN bulk_timers[k] ELSE 0])
    /\ bulk_lock' = Free
    /\ cpc' = "poll"
    /\ UNCHANGED <<cmsg, polls, consumerOpen, bulk_events, bulk_timers,
                   nextList, nextTimer, timers, mainpc, handled, sent,
                   exports, log>>
    /\ UNCHANGED <<envVars, files>>

\* ------------------------------------------------------------ threading.Timer
SetTimer(t, field, v) == timers' = [timers EXCEPT ![t][field] = v]

\* Timer.run: the interval has passed and cancel() has not set `finished`;
\* export_bulk_events(journey_id) is called and asks for bulk_lock.
TimerFire(t) ==
    /\ Running /\ timers[t].st = "waiting" /\ ~timers[t].finished
    /\ SetTimer(t, "st", "acquire")
    /\ UNCHANGED <<cpc, cmsg, polls, consumerOpen, windowVars, bulk_lock,
                   mainpc, handled, sent, appended, exports, log>>
    /\ UNCHANGED <<envVars, files>>

\* ---------------------------------------------------------- export_bulk_events
\* Mutant: the buffer is read with get() and stays in bulk_events.
EventsAfterPop_Peek(k) == bulk_events

\* line 259: bulk_events once pop(journey_id, []) has removed the key.
EventsAfterPop(k) == DictDel(bulk_events, k)

\* Mutant: the Timer entry of the flushed key is never removed.
TimersAfterPop_Kept(k) == bulk_timers

\* line 261: bulk_timers once pop(journey_id) has removed the key.
TimersAfterPop(k) == DictDel(bulk_timers, k)

\* lines 258-259: `with bulk_lock:` entered and
\* events = bulk_events.pop(journey_id, [])
ExportPopEvents(t) ==
    /\ Running /\ timers[t].st = "acquire" /\ bulk_lock = Free
    /\ bulk_lock' = t
    /\ LET k == timers[t].key IN
         IF k \in DOMAIN bulk_events
           THEN /\ timers' = [timers EXCEPT ![t].events = bulk_events[k],
                                            ![t].st = "pop_timer"]
                /\ bulk_events' = EventsAfterPop(k)
           ELSE /\ timers' = [timers EXCEPT ![t].events = DefaultList,
                                            ![t].st = "pop_timer"]
                /\ UNCHANGED bulk_events
    /\ UNCHANGED <<cpc, cmsg, polls, consumerOpen, bulk_timers, heap,
                   nextList, nextTimer, mainpc, handled, sent, appended,
                   exports, log>>
    /\ UNCHANGED <<envVars, files>>

\* Mutant: the export is made inside `with bulk_lock:`, the lock is not
\* released at line 262.
ExportPopTimer_KeepsLock(t) ==
    /\ Running /\ timers[t].st = "pop_timer" /\ bulk_lock = t
    /\ LET k == timers[t].key IN
         IF k \in DOMAIN bulk_timers
           THEN /\ timers' = [timers EXCEPT ![bulk_timers[k]].finished = TRUE,
                                            ![t].st = "csv"]
                /\ bulk_timers' = TimersAfterPop(k)
           ELSE /\ SetTimer(t, "st", "csv")
                /\ UNCHANGED bulk_timers
    /\ UNCHANGED <<cpc, cmsg, polls, consumerOpen, bulk_events, bulk_lock,
                   heap, nextList, nextTimer, mainpc, handled, sent, appended,
                   exports, log, envVars, files>>

\* lines 260-262: if journey_id in bulk_timers: bulk_timers.pop(journey_id).cancel()
\* (cancel() sets the popped Timer's `finished` event), and the end of
\* `with bulk_lock:`.
ExportPopTimer(t) ==
    /\ Running /\ timers[t].st = "pop_timer" /\ bulk_lock = t
    /\ bulk_lock' = Free
    /\ LET k == timers[t].key IN
         IF k \in DOMAIN bulk_timers
           THEN /\ timers' = [timers EXCEPT ![bulk_timers[k]].finished = TRUE,
                                            ![t].st = "csv"]
                /\ bulk_timers' = TimersAfterPop(k)
           ELSE /\ SetTimer(t, "st", "csv")
                /\ UNCHANGED bulk_timers
    /\ UNCHANGED <<cpc, cmsg, polls, consumerOpen, bulk_events, heap,
                   nextList, nextTimer, mainpc, handled, sent, appended,
                   exports, log>>
    /\ UNCHANGED <<envVars, files>>

\* ----------------------------------------------------------------- generate_csv
\* event.keys().  The events the consumer routes carry BaseFields; the event
\* lists of CsvSpec carry their own field sets.
FieldsOf(ev) == IF "fields" \in DOMAIN ev THEN ev.fields ELSE BaseFields

\* What DictWriter writes under column f for an event: the event's value
\* (modelled by the event's id) or restval, the empty string (modelled by 0).
Cell(ev, f) == IF f \in FieldsOf(ev) THEN ev.id ELSE 0

\* The row writer.writerow(event) writes under the header's columns.
Row(ev, header) == [f \in header |-> Cell(ev, f)]

\* csv.DictWriter is constructed with the default extrasaction='raise':
\* writerow raises ValueError for a dict with a key outside fieldnames.
WriterowRaises(ev, header) == ~(FieldsOf(ev) \subseteq header)

\* lines 273-274: the for loop from event i on; it stops at the first
\* writerow that raises.
RECURSIVE WriteRows(_, _, _)
WriteRows(events, header, i) ==
    IF i > Len(events) THEN [rows |-> <<>>, raised |-> FALSE]
    ELSE IF WriterowRaises(events[i], header)
      THEN [rows |-> <<>>, raised |-> TRUE]
      ELSE LET rest == WriteRows(events, header, i + 1)
           IN [rows |-> <<Row(events[i], header)>> \o rest.rows,
               raised |-> rest.raised]

\* Mutant: the header is taken from the last event.
Fieldnames_OfLast(events) == FieldsOf(events[Len(events)])

\* line 270: fieldnames = events[0].keys()
Fieldnames(events) == FieldsOf(events[1])

\* generate_csv(journey_id, events) on a non-empty list: the file it leaves
\* (opened with mode 'w', so earlier content is gone) and whether it raised.
GenerateCsv(events) ==
    LET header == Fieldnames(events)
        body == WriteRows(events, header, 1)
    IN [header |-> header, rows |-> body.rows, raised |-> body.raised]

\* lines 263-264: if events: generate_csv(journey_id, events); an empty list
\* ends export_bulk_events with no export.  A ValueError from writerow ends
\* the Timer thread before line 265.
ExportGenerateCsv(t) ==
    /\ Running /\ timers[t].st = "csv"
    /\ IF heap[timers[t].events] # <<>>
         THEN LET csv == GenerateCsv(heap[timers[t].events]) IN
              /\ exports' = Append(exports,
                    [key |-> timers[t].key, events |-> heap[timers[t].events],
                     timer |-> t])
              /\ files' = [files EXCEPT ![timers[t].key] =
                               [header |-> csv.header, rows |-> csv.rows]]
              /\ SetTimer(t, "st", IF csv.raised THEN "done" ELSE "upload")
         ELSE /\ SetTimer(t, "st", "done")
              /\ UNCHANGED <<exports, files>>
    /\ UNCHANGED <<cpc, cmsg, polls, consumerOpen, windowVars, bulk_lock,
                   mainpc, handled, sent, appended, log>>
    /\ UNCHANGED envVars

\* line 265: upload_to_s3(csv_file_path, journey_id).  The def of upload_to_s3
\* (lines 277-282) is commented out, so the name lookup raises NameError and
\* the Timer thread ends with the CSV written and nothing uploaded.
ExportUpload(t) ==
    /\ Running /\ timers[t].st = "upload"
    /\ SetTimer(t, "st", "done")
    /\ UNCHANGED <<cpc, cmsg, polls, consumerOpen, windowVars, bulk_lock,
                   mainpc, handled, sent, appended, exports, log>>
    /\ UNCHANGED <<envVars, files>>

\* ---------------------------------------------------------------------- startup
\* Mutant: the global is cleared before the request is made.
TokenAfterAuth_Cleared(outcome) ==
    IF outcome = "ok" THEN sfmc_access_token + 1 ELSE NoToken

\* authenticate_with_sfmc (lines 145-161) with the given outcome of its
\* requests.post: the value of sfmc_access_token when the call is over.  Only
\* a 200 response reaches the assignment of line 158; any other status and any
\* exception of the HTTP call leave the function by an exception before it.
TokenAfterAuth(outcome) ==
    IF outcome = "ok" THEN sfmc_access_token + 1 ELSE sfmc_access_token

\* Mutant: the exception of the startup authentication is swallowed.
AfterStartupAuth_Ignored(outcome) == "boot"

\* Where the main thread goes after line 173: on, or out by the exception
\* authenticate_with_sfmc raised, which nothing at module level catches.
AfterStartupAuth(outcome) == IF outcome = "ok" THEN "boot" ELSE "crashed"

\* line 173: authenticate_with_sfmc() at module level.
StartupAuth(outcome) ==
    /\ mainpc = "auth"
    /\ sfmc_access_token' = TokenAfterAuth(outcome)
    /\ mainpc' = AfterStartupAuth(outcome)
    /\ UNCHANGED <<cpc, cmsg, polls, consumerOpen, windowVars, bulk_lock,
                   timers, handled, sent, appended, exports, log, rpc,
                   renewals, shutdownVars, files, csvVars>>

\* lines 174-297: the renewal thread is started, the temp files are written,
\* the consumer is created and subscribed, the consumer thread is started and
\* the signal handlers are installed; the main thread reaches signal.pause().
StartupThreads ==
    /\ mainpc = "boot"
    /\ rpc' = "sleep"
    /\ cpc' = "poll"
    /\ mainpc' = "pause"
    /\ UNCHANGED <<cmsg, polls, consumerOpen, windowVars, bulk_lock, timers,
                   handled, sent, appended, exports, log, sfmc_access_token,
                   renewals, shutdownVars, files, csvVars>>

\* ------------------------------------------------ renew_sfmc_token_periodically
\* time.sleep(interval) returns.
RenewTick ==
    /\ Running /\ rpc = "sleep" /\ Len(renewals) < MaxRenewals
    /\ rpc' = "auth"
    /\ UNCHANGED <<cpc, cmsg, polls, consumerOpen, windowVars, bulk_lock,
                   timers, mainpc, handled, sent, appended, exports, log,
                   sfmc_access_token, renewals, shutdownVars, files, csvVars>>

\* lines 167-170: authenticate_with_sfmc() inside try; an exception is printed
\* and the loop goes back to time.sleep.
RenewAuth(outcome) ==
    /\ Running /\ rpc = "auth"
    /\ sfmc_access_token' = TokenAfterAuth(outcome)
    /\ renewals' = Append(renewals, outcome)
    /\ IF outcome = "ok" THEN UNCHANGED log ELSE LogError("renew_error")
    /\ rpc' = "sleep"
    /\ UNCHANGED <<cpc, cmsg, polls, consumerOpen, windowVars, bulk_lock,
                   timers, mainpc, handled, sent, appended, exports,
                   shutdownVars, files, csvVars>>

\* -------------------------------------------------------------- signal_handler
\* The positions of the main thread inside signal_handler.
UnlinkPc == <<"sig_unlink_cafile", "sig_unlink_certfile", "sig_unlink_keyfile">>
HandlerPcs == {"sig_close", "sig_exit"} \cup {UnlinkPc[f] : f \in 1 .. 3}

\* SIGINT or SIGTERM delivered to the main thread in signal.pause().
Signal ==
    /\ mainpc = "pause"
    /\ mainpc' = "sig_close"
    /\ nsignals' = nsignals + 1
    /\ UNCHANGED <<cpc, cmsg, polls, consumerOpen, windowVars, bulk_lock,
                   timers, handled, sent, appended, exports, log, deleted,
                   authVars, files, csvVars>>

\* SIGINT or SIGTERM delivered while signal_handler is running: the
\* interpreter calls signal_handler again on top of the running call, which
\* never resumes, because the new call ends in SystemExit or in an exception.
SignalInHandler ==
    /\ mainpc \in HandlerPcs /\ nsignals < MaxSignals
    /\ mainpc' = "sig_close"
    /\ nsignals' = nsignals + 1
    /\ UNCHANGED <<cpc, cmsg, polls, consumerOpen, windowVars, bulk_lock,
                   timers, handled, sent, appended, exports, log, deleted,
                   authVars, files, csvVars>>

\* line 290: consumer.close().  On a consumer that is already closed the
\* call either returns or raises RuntimeError, depending on the version of
\* confluent_kafka; the exception leaves signal_handler and ends the process.
SigClose ==
    /\ mainpc = "sig_close"
    /\ consumerOpen' = FALSE
    /\ IF consumerOpen
         THEN mainpc' = UnlinkPc[1]
         ELSE mainpc' \in {UnlinkPc[1], "crashed"}
    /\ UNCHANGED <<cpc, cmsg, polls, windowVars, bulk_lock, timers, handled,
                   sent, appended, exports, log, deleted, nsignals,
                   authVars, files, csvVars>>

\* os.unlink of a path that does not exist raises FileNotFoundError.
UnlinkRaises(f) == f \in deleted

\* lines 291-293: os.unlink of the f-th temp file.
SigUnlink(f) ==
    /\ mainpc = UnlinkPc[f]
    /\ IF UnlinkRaises(f)
         THEN mainpc' = "crashed" /\ UNCHANGED deleted
         ELSE /\ deleted' = deleted \cup {f}
              /\ mainpc' = IF f = 3 THEN "sig_exit" ELSE UnlinkPc[f + 1]
    /\ UNCHANGED <<cpc, cmsg, polls, consumerOpen, windowVars, bulk_lock,
                   timers, handled, sent, appended, exports, log, nsignals,
                   authVars, files, csvVars>>

\* lines 291-293 with no signal delivered in between: the three os.unlink
\* calls in one step.  No other thread reads or writes the temp files.
SigUnlinkAll ==
    /\ mainpc = UnlinkPc[1] /\ deleted = {}
    /\ deleted' = {1, 2, 3}
    /\ mainpc' = "sig_exit"
    /\ UNCHANGED <<cpc, cmsg, polls, consumerOpen, windowVars, bulk_lock,
                   timers, handled, sent, appended, exports, log, nsignals,
                   authVars, files, csvVars>>

\* line 294: sys.exit(0).  The consumer thread is a daemon thread and every
\* Timer, constructed on it, inherits the daemon flag: none outlives the exit.
SigExit ==
    /\ mainpc = "sig_exit"
    /\ mainpc' = "exited"
    /\ UNCHANGED <<cpc, cmsg, polls, consumerOpen, windowVars, bulk_lock,
                   timers, handled, sent, appended, exports, log,
                   shutdownVars, authVars, files, csvVars>>

\* ------------------------------------------------- generate_csv on its own
\* Event lists with mixed field sets: every event has BaseFields and any of
\* the ExtraFields.
CsvFieldSets == {BaseFields \cup x : x \in SUBSET ExtraFields}

CsvInputs ==
    UNION {{[i \in 1 .. n |-> [id |-> i, fields |-> fs[i]]] :
                fs \in [1 .. n -> CsvFieldSets]} : n \in 1 .. MaxCsvEvents}

CsvCall ==
    /\ csvOut.st = "uncalled"
    /\ LET csv == GenerateCsv(csvIn) IN
         csvOut' = [st |-> IF csv.raised THEN "raised" ELSE "returned",
                    header |-> csv.header, rows |-> csv.rows]
    /\ UNCHANGED <<cpc, cmsg, polls, consumerOpen, windowVars, bulk_lock,
                   timers, mainpc, handled, sent, appended, exports, log,
                   shutdownVars, authVars, files, csvIn>>

\* ------------------------------------------------------------------ the system
\* The (type, JourneyID) pairs of the messages polled whose value decodes to
\* a JSON object.  Only add_bulk_event uses journey_id, so events of the
\* other types are drawn with one JourneyID.
Polled ==
    {[type |-> "bulk", key |-> k] : k \in Keys}
        \cup {[type |-> ty, key |-> "J1"] : ty \in Types \ {"bulk"}}

ConsumerNext ==
    \/ PollNone
    \/ \E kind \in {"eof", "fatal"} : PollError(kind)
    \/ PollMalformed
    \/ \E ev \in Polled : PollValid(ev.type, ev.key)
    \/ PollClosed
    \/ ConsumerFinally
    \/ HandleEvent
    \/ \E outcome \in PostOutcomes : SendToSfmc(outcome)
    \/ AddAcquire
    \/ AddCreate
    \/ AddTimer
    \/ AddAppend

TimerNext(t) ==
    \/ TimerFire(t)
    \/ ExportPopEvents(t)
    \/ ExportPopTimer(t)
    \/ ExportGenerateCsv(t)
    \/ ExportUpload(t)

\* The main thread when at most one termination signal is delivered.
MainNext ==
    \/ \E outcome \in PostOutcomes : StartupAuth(outcome)
    \/ StartupThreads
    \/ Signal
    \/ SigClose
    \/ SigUnlinkAll
    \/ SigExit

Next ==
    \/ ConsumerNext
    \/ \E t \in TimerIds : TimerNext(t)
    \/ MainNext

Spec == Init /\ [][Next]_vars

\* Fair scheduling of the threads that hold or wait for bulk_lock: a consumer
\* thread inside add_bulk_event keeps running, and so does every Timer thread.
\* No message has to arrive and no signal has to be delivered.
Fairness ==
    /\ WF_vars(AddAcquire \/ AddCreate \/ AddTimer \/ AddAppend)
    /\ \A t \in TimerIds : WF_vars(TimerNext(t))

FairSpec == Spec /\ Fairness

\* Every thread of the program keeps running: the consumer thread between a
\* poll that returned and the next poll, the Timer threads, and the main
\* thread during startup and inside signal_handler.  No message has to arrive,
\* no signal has to be delivered and no renewal has to come due.
Progress ==
    /\ Fairness
    /\ WF_vars(HandleEvent \/ (\E outcome \in PostOutcomes : SendToSfmc(outcome)))
    /\ WF_vars(PollClosed \/ ConsumerFinally)
    /\ WF_vars((\E outcome \in PostOutcomes : StartupAuth(outcome))
                  \/ StartupThreads)
    /\ WF_vars(SigClose \/ SigUnlinkAll \/ SigExit)

ProgressSpec == Spec /\ Progress

\* Spec with termination signals delivered while signal_handler runs.
ShutdownNext ==
    \/ ConsumerNext
    \/ \E t \in TimerIds : TimerNext(t)
    \/ \E outcome \in PostOutcomes : StartupAuth(outcome)
    \/ StartupThreads
    \/ Signal
    \/ SignalInHandler
    \/ SigClose
    \/ \E f \in 1 .. 3 : SigUnlink(f)
    \/ SigExit

ShutdownSpec == Init /\ [][ShutdownNext]_vars

\* The threads that write or read sfmc_access_token: the main thread, the
\* renewal thread and the consumer thread on the stream branch.
AuthNext ==
    \/ MainNext
    \/ RenewTick
    \/ \E outcome \in PostOutcomes : RenewAuth(outcome)
    \/ PollNone
    \/ PollValid("stream", "J1")
    \/ HandleEvent
    \/ \E outcome \in PostOutcomes : SendToSfmc(outcome)
    \/ PollClosed
    \/ ConsumerFinally

AuthSpec == Init /\ [][AuthNext]_vars

\* generate_csv applied once to an event list.
CsvInit ==
    /\ InitProgram
    /\ csvIn \in CsvInputs
    /\ csvOut = NoCsvCall

CsvSpec == CsvInit /\ [][CsvCall]_vars

\* ------------------------------------------------------------ observations
\* The events appended (line 255) while Timer t was the key's timer, in
\* arrival order.
AppendedTo(t) ==
    LET idx == SelectSeq([i \in 1 .. Len(appended) |-> i],
                         LAMBDA i : appended[i].timer = t)
    IN [j \in 1 .. Len(idx) |-> appended[idx[j]].ev]

\* The generate_csv calls made by Timer t.
ExportsBy(t) == SelectSeq(exports, LAMBDA e : e.timer = t)

\* Timer t has been through `if events:` (lines 263-264).
PastCsv(t) == timers[t].st \in {"upload", "done"}

\* Timer t has detached a buffer from bulk_events (line 259).
Detached(t) == timers[t].events # DefaultList

DetachedLists == {timers[t].events : t \in {u \in TimerIds : Detached(u)}}

Ids(q) == {q[i].id : i \in 1 .. Len(q)}

\* ------------------------------------------------------------------- C1
\* C1: the bulk events of one key that arrive while the Timer started by the
\* first of them has not yet flushed are exported exactly once: that Timer
\* makes exactly one generate_csv call, for that key, and the list it passes
\* is exactly those events, each once, in arrival order; a Timer that has
\* not reached the export has made no call.
C1_OneExportPerWindow ==
    \A t \in TimerIds :
        IF PastCsv(t)
          THEN /\ Len(ExportsBy(t)) = 1
               /\ ExportsBy(t)[1].key = timers[t].key
               /\ ExportsBy(t)[1].events = AppendedTo(t)
               /\ Len(AppendedTo(t)) >= 1
               /\ \A i \in 1 .. Len(AppendedTo(t)) :
                      AppendedTo(t)[i].JourneyID = timers[t].key
          ELSE Len(ExportsBy(t)) = 0

\* C1 witness: one export carried three events of one key, in arrival order.
C1_Witness ==
    \E i \in 1 .. Len(exports) :
        /\ Len(exports[i].events) = 3
        /\ exports[i].events[1].id < exports[i].events[2].id
        /\ exports[i].events[2].id < exports[i].events[3].id

\* ------------------------------------------------------------------- C2
\* Where the event with this id is buffered: (list, position) pairs.
Places(id) ==
    {<<l, i>> \in ListIds \X (1 .. MaxPolls) :
        i <= Len(heap[l]) /\ heap[l][i].id = id}

C2_Inv ==
    \* every accepted event sits in exactly one buffer, once
    /\ \A j \in 1 .. Len(appended) :
           Places(appended[j].ev.id) = {<<appended[j].list, 
                Cardinality({h \in 1 .. j : appended[h].list = appended[j].list})>>}
    \* a buffer is detached by at most one Timer, and a detached buffer is
    \* no longer in bulk_events
    /\ \A t, u \in TimerIds :
           Detached(t) /\ Detached(u) /\ timers[t].events = timers[u].events
               => t = u
    /\ \A k \in DOMAIN bulk_events : bulk_events[k] \notin DetachedLists
    \* every buffer is either in bulk_events or detached, unless the consumer
    \* is between lines 252 and 255 creating it
    /\ \A j \in 1 .. Len(appended) :
           \/ appended[j].list \in DetachedLists
           \/ \E k \in DOMAIN bulk_events : bulk_events[k] = appended[j].list
    \* no event is in two exports, and an export is a detached buffer
    /\ \A i, j \in 1 .. Len(exports) :
           i # j => Ids(exports[i].events) \cap Ids(exports[j].events) = {}
    /\ \A i \in 1 .. Len(exports) :
           /\ Detached(exports[i].timer)
           /\ exports[i].events = heap[timers[exports[i].timer].events]

\* Nothing is appended to a buffer once it is detached.
C2_DetachedFrozen ==
    \A t \in TimerIds :
        Detached(t) => /\ timers'[t].events = timers[t].events
                       /\ heap'[timers[t].events] = heap[timers[t].events]

\* C2: under every interleaving of add_bulk_event and export_bulk_events each
\* buffer is detached at most once, every accepted bulk event is in exactly
\* one buffer (still in bulk_events, or detached by exactly one Timer), no
\* event is in two exports, and a detached buffer never changes again.
C2_DetachAtomic == [](C2_Inv) /\ [][C2_DetachedFrozen]_vars

\* C2 witness: the consumer holds the lock to append to a key whose earlier
\* window a Timer has detached and not yet exported.
C2_Witness ==
    /\ cpc = "add_append"
    /\ \E t \in TimerIds :
           /\ timers[t].st = "csv"
           /\ timers[t].key = JourneyOf(Event(cmsg))
           /\ Len(heap[timers[t].events]) >= 1

\* ------------------------------------------------------------------- C3
\* Timer t's window has been opened: an event was appended under it.
WindowOpened(t) == \E j \in 1 .. Len(appended) : appended[j].timer = t

\* Timer t has flushed: generate_csv was called with the window's buffer, and
\* the Timer popped itself from bulk_timers (the cancel() of line 261 set its
\* `finished`), which ends the critical section that removed the key.
Flushed(t) ==
    /\ \E i \in 1 .. Len(exports) :
           /\ exports[i].timer = t
           /\ exports[i].events = AppendedTo(t)
    /\ timers[t].finished

\* C3: under fair scheduling, every window that add_bulk_event opens is
\* flushed unless the process exits first: its Timer runs
\* export_bulk_events, generate_csv is called with the window's buffer, and
\* the key is in neither bulk_events nor bulk_timers at some later point.
C3_WindowEventuallyFlushed ==
    /\ \A t \in TimerIds : WindowOpened(t) ~> (Flushed(t) \/ ~Running)
    /\ \A k \in Keys :
           (k \in DOMAIN bulk_events)
               ~> (\/ (k \notin DOMAIN bulk_events /\ k \notin DOMAIN bulk_timers)
                   \/ ~Running)

\* C3 witness: a window was flushed with the process still running and no
\* signal delivered.
C3_Witness ==
    /\ mainpc = "pause"
    /\ \E t \in TimerIds : WindowOpened(t) /\ Flushed(t)
    /\ DOMAIN bulk_events = {} /\ DOMAIN bulk_timers = {}

\* ------------------------------------------------------------------- C4
\* C4: events of distinct JourneyIDs are never merged: every buffer in
\* bulk_events[k], and every list passed to generate_csv for key k, holds
\* only events whose JourneyID is k.
C4_KeysNeverMerged ==
    /\ \A k \in DOMAIN bulk_events :
           \A i \in 1 .. Len(heap[bulk_events[k]]) :
               heap[bulk_events[k]][i].JourneyID = k
    /\ \A i \in 1 .. Len(exports) :
           \A j \in 1 .. Len(exports[i].events) :
               exports[i].events[j].JourneyID = exports[i].key

\* C4 witness: windows of both keys are open at once and an export has been made.
C4_Witness ==
    /\ DOMAIN bulk_events = Keys
    /\ \A k \in Keys : Len(heap[bulk_events[k]]) >= 1
    /\ Len(exports) >= 1

\* ------------------------------------------------------------------- C5
\* handle_event has returned (or raised) for the event with this id.
HandlingOver(id) ==
    \/ id < cmsg.id
    \/ id = cmsg.id /\ cpc \in {"poll", "finally", "dead"}

C5_Inv ==
    \A h \in 1 .. Len(handled) :
        LET ev == handled[h]
            nSent == Len(SelectSeq(sent, LAMBDA x : x.ev.id = ev.id))
            nApp == Len(SelectSeq(appended, LAMBDA x : x.ev.id = ev.id))
        IN /\ ev.type # "stream" => nSent = 0
           /\ ev.type # "bulk" => nApp = 0
           /\ nSent <= 1 /\ nApp <= 1
           /\ HandlingOver(ev.id) /\ ev.type = "stream" => nSent = 1
           /\ HandlingOver(ev.id) /\ ev.type = "bulk" =>
                  /\ nApp = 1
                  /\ \A j \in 1 .. Len(appended) :
                         appended[j].ev.id = ev.id =>
                             /\ appended[j].ev = ev
                             /\ appended[j].timer \in TimerIds
                             /\ timers[appended[j].timer].key = ev.JourneyID

\* A step of the consumer thread while the event it handles is a stream
\* event leaves the window state alone.
C5_StreamFrame ==
    (cmsg.kind = "valid" /\ cmsg.type = "stream" /\ cpc # "poll" /\ cpc' # cpc)
        => UNCHANGED <<bulk_events, bulk_timers, heap, nextList, nextTimer>>

\* C5: routing is exclusive: a stream event never changes bulk_events or
\* bulk_timers and gets exactly one send_to_sfmc call; a bulk event never
\* gets a send_to_sfmc call and gets exactly one append, to the window of
\* its JourneyID.
C5_RoutingExclusive == [](C5_Inv) /\ [][C5_StreamFrame]_vars

\* C5 witness: a stream event and a bulk event have both been handled.
C5_Witness ==
    /\ cpc = "poll"
    /\ \E h \in 1 .. Len(handled) : handled[h].type = "stream"
    /\ \E h \in 1 .. Len(handled) : handled[h].type = "bulk"
    /\ Len(sent) >= 1 /\ Len(appended) >= 1

\* ------------------------------------------------------------------- C6
\* C6: a message whose payload is not JSON does not end the consumer loop:
\* with no signal delivered, the loop is not in its finally clause, nor
\* over, with that message as the last one polled.
C6_MalformedSkipped ==
    (mainpc = "pause" /\ cmsg.kind = "malformed")
        => cpc \notin {"finally", "dead"}

\* ------------------------------------------------------------------- C7
\* C7: a failed forward of a stream event, an HTTP status other than 200 or
\* an exception raised by the HTTP call, does not end the consumer loop:
\* with no signal delivered, the loop is not in its finally clause, nor
\* over, with the failed event as the last one polled.
C7_ForwardFailureSurvived ==
    \A i \in 1 .. Len(sent) :
        (mainpc = "pause" /\ sent[i].outcome # "ok" /\ sent[i].ev.id = cmsg.id)
            => cpc \notin {"finally", "dead"}

\* ------------------------------------------------------------------- C8
\* C8: whenever bulk_lock is free, bulk_events and bulk_timers have the same
\* keys, every buffer is non-empty, a key is present exactly when an event
\* appended for it sits in a buffer that has not been detached, and the
\* Timer stored for a key is that key's, not cancelled and not yet past the
\* lock; at every instant a key has at most one Timer that has not fired.
C8_WindowInvariant ==
    /\ bulk_lock = Free =>
          /\ DOMAIN bulk_events = DOMAIN bulk_timers
          /\ \A k \in DOMAIN bulk_events : heap[bulk_events[k]] # <<>>
          /\ \A k \in Keys :
                 k \in DOMAIN bulk_events
                     <=> \E j \in 1 .. Len(appended) :
                             /\ appended[j].ev.JourneyID = k
                             /\ appended[j].list \notin DetachedLists
          /\ \A k \in DOMAIN bulk_timers :
                 /\ bulk_timers[k] \in TimerIds
                 /\ timers[bulk_timers[k]].key = k
                 /\ timers[bulk_timers[k]].st \in {"waiting", "acquire"}
                 /\ ~timers[bulk_timers[k]].finished
          /\ \A t \in TimerIds :
                 timers[t].st \in {"waiting", "acquire"}
                     => /\ timers[t].key \in DOMAIN bulk_timers
                        /\ bulk_timers[timers[t].key] = t
    /\ \A k \in Keys :
           Cardinality({t \in TimerIds :
                           timers[t].key = k /\ timers[t].st = "waiting"}) <= 1

\* C8 witness: the lock is free, a window is open for a key whose earlier
\* window was detached, and a window of the other key is open too.
C8_Witness ==
    /\ bulk_lock = Free
    /\ DOMAIN bulk_events = Keys
    /\ \E t \in TimerIds : Detached(t) /\ timers[t].key \in DOMAIN bulk_events

\* ------------------------------------------------------------------- C9
C9_Inv ==
    \* the events of one buffer were all appended under one Timer
    /\ \A i, j \in 1 .. Len(appended) :
           appended[i].list = appended[j].list
               <=> appended[i].timer = appended[j].timer
    /\ \A i \in 1 .. Len(appended) : appended[i].timer \in TimerIds

C9_Frame ==
    LET k == JourneyOf(Event(cmsg)) IN
    \* an event for an open window goes straight to the append
    /\ (cpc = "add_acquire" /\ cpc' # cpc /\ k \in DOMAIN bulk_events)
           => cpc' = "add_append" /\ UNCHANGED <<bulk_timers, nextTimer, timers>>
    \* the append leaves the Timers alone
    /\ (cpc = "add_append" /\ cpc' # cpc)
           => UNCHANGED <<bulk_timers, nextTimer, timers>>
    \* a Timer is made only for a window just created, still empty, and it
    \* is stored for the key and started
    /\ nextTimer' # nextTimer
           => /\ cpc = "add_timer"
              /\ k \in DOMAIN bulk_events /\ heap[bulk_events[k]] = <<>>
              /\ k \notin DOMAIN bulk_timers
              /\ nextTimer' = nextTimer + 1
              /\ bulk_timers' = DictSet(bulk_timers, k, nextTimer')
              /\ timers'[nextTimer'].st = "waiting"
              /\ timers'[nextTimer'].key = k
    \* nothing else stores a Timer
    /\ (\E x \in DOMAIN bulk_timers' :
            x \notin DOMAIN bulk_timers \/ bulk_timers'[x] # bulk_timers[x])
           => nextTimer' # nextTimer

\* C9: the window is fixed, not sliding: the flush Timer of a key is made
\* and started once, when the first event creates the window, and appending
\* further events to the open window neither re-arms, cancels nor replaces
\* it (bulk_timers, and every Timer, are unchanged by those appends).
C9_FixedWindow == [](C9_Inv) /\ [][C9_Frame]_vars

\* C9 witness: a second event has been appended to an open window whose
\* Timer is still waiting.
C9_Witness ==
    /\ cpc = "poll"
    /\ \E i, j \in 1 .. Len(appended) :
           /\ i < j
           /\ appended[i].list = appended[j].list
           /\ timers[appended[i].timer].st = "waiting"

\* ------------------------------------------------------------------- C10
\* An earlier window of key k has been detached.
PriorDetach(k) == \E t \in TimerIds : Detached(t) /\ timers[t].key = k

\* Entry j of `appended` opened a window of a key that had a window detached
\* before.
Reopened(j) ==
    /\ \A h \in 1 .. Len(appended) :
           appended[h].list = appended[j].list => j <= h
    /\ \E t \in TimerIds :
           /\ t < appended[j].timer
           /\ Detached(t)
           /\ timers[t].key = appended[j].ev.JourneyID

C10_Frame ==
    LET k == JourneyOf(Event(cmsg)) IN
    \* the key is absent after the detach: a window is created
    /\ (/\ cpc = "add_acquire" /\ cpc' # cpc
        /\ PriorDetach(k) /\ k \notin DOMAIN bulk_events)
           => cpc' = "add_create"
    \* the event is appended to the new buffer, alone, under a new Timer,
    \* and no detached buffer changes
    /\ (/\ cpc = "add_append" /\ cpc' # cpc
        /\ PriorDetach(k)
        /\ k \in DOMAIN bulk_events /\ heap[bulk_events[k]] = <<>>)
           => /\ k \in DOMAIN bulk_events' /\ k \in DOMAIN bulk_timers'
              /\ bulk_events'[k] \notin DetachedLists
              /\ heap'[bulk_events'[k]] = <<Event(cmsg)>>
              /\ \A l \in DetachedLists : heap'[l] = heap[l]
              /\ LET t == bulk_timers'[k]
                 IN /\ timers'[t].key = k
                    /\ timers'[t].st \in {"waiting", "acquire"}
                    /\ ~timers'[t].finished
                    /\ ~Detached(t)

C10_Inv ==
    \A j \in 1 .. Len(appended) :
        Reopened(j) =>
            /\ Places(appended[j].ev.id) = {<<appended[j].list, 1>>}
            /\ \A i \in 1 .. Len(exports) :
                   appended[j].ev.id \in Ids(exports[i].events)
                       => exports[i].timer = appended[j].timer

\* The event of entry j has been passed to generate_csv by its window's Timer.
ExportedByItsTimer(id) ==
    \E j \in 1 .. Len(appended), i \in 1 .. Len(exports) :
        /\ appended[j].ev.id = id
        /\ exports[i].timer = appended[j].timer
        /\ id \in Ids(exports[i].events)

\* C10: a bulk event that arrives for a key after the key's window was
\* detached opens a new window: a fresh buffer holding only that event and
\* a new Timer for the key; it is never added to a detached buffer, and,
\* under fair scheduling, that Timer's flush exports it unless the process
\* exits first.
C10_LateEventReopens ==
    /\ [](C10_Inv)
    /\ [][C10_Frame]_vars
    /\ \A id \in 1 .. MaxPolls :
           (\E j \in 1 .. Len(appended) :
                appended[j].ev.id = id /\ Reopened(j))
               ~> (ExportedByItsTimer(id) \/ ~Running)

\* C10 witness: the late event's window has been exported, after the
\* export of the earlier window of its key.
C10_Witness ==
    \E j \in 1 .. Len(appended) :
        /\ Reopened(j)
        /\ ExportedByItsTimer(appended[j].ev.id)
        /\ Len(exports) >= 2
        /\ exports[1].key = exports[2].key

\* ------------------------------------------------------------------- C11
\* The main thread is in signal_handler after consumer.close() returned, or
\* has left it by sys.exit.
PastClose == mainpc \in {UnlinkPc[1], UnlinkPc[2], UnlinkPc[3], "sig_exit", "exited"}

\* Order of the releases: a temp file is deleted only after the session is
\* closed, and the process exits with status 0 only after the three
\* deletions.
C11_Order ==
    /\ deleted # {} => ~consumerOpen
    /\ mainpc \in {"sig_exit", "exited"} => deleted = {1, 2, 3}

\* The poll loop is stopped before the session is closed: from the close on,
\* the consumer thread takes no step of polling, routing, forwarding or
\* buffering.
C11_LoopStopped ==
    PastClose =>
        /\ cpc' \in {cpc, "dead"}
        /\ UNCHANGED <<polls, handled, sent, appended>>

\* C11: on a termination signal the poll loop is stopped first (no further
\* poll or handle_event), then the broker session is closed, then the three
\* temp files are deleted, then the process exits with status 0.
C11_ShutdownOrder == [](C11_Order) /\ [][C11_LoopStopped]_vars

\* ------------------------------------------------------------------- C12
\* No os.unlink is attempted on a temp file that an earlier os.unlink removed.
C12_UnlinkedOnce ==
    \A f \in 1 .. 3 :
        (mainpc = UnlinkPc[f] /\ mainpc' \notin {mainpc, "sig_close"})
            => f \notin deleted

\* signal_handler raises nothing: once a signal has been delivered the main
\* thread does not end by an uncaught exception.
C12_NoError == nsignals > 0 => mainpc # "crashed"

\* C12: shutdown is idempotent.  With a second signal arriving while
\* signal_handler runs, or with the session already closed by the consumer
\* loop, each temp file is unlinked at most once, no error is raised and the
\* process exits with status 0.
C12_ShutdownIdempotent == [](C12_NoError) /\ [][C12_UnlinkedOnce]_vars

\* ------------------------------------------------------------------- C13
\* C13: after poll returns an unrecoverable broker error the consumer loop
\* exits and the shutdown is triggered, so that the process terminates
\* instead of staying alive with no consumer.
C13_FatalErrorShutsDown ==
    (cmsg.kind = "fatal") ~> ~Running

\* ------------------------------------------------------------------- C14
\* The call of line 173 has returned without an exception.
StartupAuthenticated ==
    /\ mainpc # "auth"
    /\ ~(mainpc = "crashed" /\ nsignals = 0)

\* Number of authenticate_with_sfmc calls that got a 200 response.
AuthSuccesses ==
    (IF StartupAuthenticated THEN 1 ELSE 0)
        + Len(SelectSeq(renewals, LAMBDA o : o = "ok"))

C14_Inv ==
    \* a failed startup authentication ends the process with no thread started
    /\ (mainpc = "crashed" /\ nsignals = 0) =>
           cpc = "unstarted" /\ rpc = "unstarted" /\ polls = 0
    \* a started consumer thread, and every poll, finds a token in place
    /\ (cpc # "unstarted" \/ polls > 0) => sfmc_access_token # NoToken
    \* the token is the one stored by the latest successful authentication
    /\ sfmc_access_token = AuthSuccesses
    \* every forward call carries such a token
    /\ \A i \in 1 .. Len(sent) :
           sent[i].token # NoToken /\ sent[i].token <= sfmc_access_token

\* The consumer thread is started only with a token in place.
C14_StartFrame ==
    (cpc = "unstarted" /\ cpc' # "unstarted") => sfmc_access_token # NoToken

\* C14: consumption never starts without a valid initial token.  If the
\* startup authenticate_with_sfmc fails the process aborts before the consumer
\* thread is started, and whenever the loop has polled sfmc_access_token holds
\* a value obtained from a successful authentication.
C14_TokenBeforeConsumption == [](C14_Inv) /\ [][C14_StartFrame]_vars

\* The loop has polled and forwarded an event after a renewal attempt.
C14_Witness ==
    /\ polls > 0
    /\ Len(sent) > 0
    /\ Len(renewals) > 0
    /\ sent[Len(sent)].token = sfmc_access_token

\* ------------------------------------------------------------------- C15
\* What a step that ends a periodic authenticate_with_sfmc call does.
C15_RenewalStep ==
    renewals' # renewals =>
        /\ rpc = "auth" /\ rpc' = "sleep"
        /\ renewals' = Append(renewals, renewals'[Len(renewals')])
        /\ IF renewals'[Len(renewals')] = "ok"
             THEN /\ sfmc_access_token' = sfmc_access_token + 1
                  /\ log' = log
             ELSE /\ sfmc_access_token' = sfmc_access_token
                  /\ log' = Append(log, "renew_error")

\* A renewal attempt is made only after its own time.sleep has returned, and
\* the token changes only in a step that ends an authentication.
C15_TickFrame ==
    /\ (rpc' = "auth" /\ rpc # "auth") => (rpc = "sleep" /\ renewals' = renewals)
    /\ (sfmc_access_token' # sfmc_access_token) =>
           (renewals' # renewals \/ mainpc = "auth")

\* The forwarder reads the token in place at the time of the call.
C15_ForwardFrame ==
    sent' # sent =>
        /\ Len(sent') = Len(sent) + 1
        /\ sent'[Len(sent')].token = sfmc_access_token
        /\ sfmc_access_token # NoToken

\* The renewal loop, once started, is asleep or authenticating; as long as
\* the process runs it can go on to the next tick.
C15_LoopAlive ==
    /\ (cpc # "unstarted") => rpc \in {"sleep", "auth"}
    /\ (Running /\ rpc = "sleep" /\ Len(renewals) < MaxRenewals)
           => ENABLED RenewTick

\* C15: a failed periodic renewal leaves sfmc_access_token unchanged, is
\* logged, does not end the renewal loop and is retried only at the next
\* tick; a successful renewal replaces the token in one assignment.
C15_RenewalFailureKeepsToken ==
    /\ [](C15_LoopAlive)
    /\ [][C15_RenewalStep /\ C15_TickFrame /\ C15_ForwardFrame]_vars

\* A renewal failed, an event was forwarded with the token that was in place
\* before the failure, and a later renewal succeeded.
C15_Witness ==
    /\ Len(renewals) = 2
    /\ renewals[1] # "ok" /\ renewals[2] = "ok"
    /\ Len(sent) > 0 /\ sent[Len(sent)].token = 1
    /\ sfmc_access_token = 2
    /\ Len(SelectSeq(log, LAMBDA r : r = "renew_error")) = 1

\* ------------------------------------------------------------------- C16
\* C16: an event whose type is missing or is neither 'stream' nor 'bulk' is
\* dropped with a logged warning: once handle_event is over for it there is a
\* warning record, no forward call was made for it and it is in no buffer.
C16_UnroutedLogged ==
    \A h \in 1 .. Len(handled) :
        (handled[h].type \notin {"stream", "bulk"} /\ HandlingOver(handled[h].id))
            => /\ \E i \in 1 .. Len(log) : log[i] = "unrouted_warning"
               /\ \A i \in 1 .. Len(sent) : sent[i].ev.id # handled[h].id
               /\ \A i \in 1 .. Len(appended) : appended[i].ev.id # handled[h].id

\* ------------------------------------------------------------------- C17
\* Row i of the artifact is the row of event i of the list: one cell per
\* header column, the event's own value where it has the field and an empty
\* cell where it does not.
C17_RowOf(i) ==
    /\ DOMAIN csvOut.rows[i] = csvOut.header
    /\ \A f \in csvOut.header :
           csvOut.rows[i][f] = (IF f \in csvIn[i].fields THEN csvIn[i].id ELSE 0)

\* The events that carry a field name the first event does not have.
C17_Strangers == {i \in 1 .. Len(csvIn) : ~(csvIn[i].fields \subseteq csvIn[1].fields)}

\* C17 as stated: for every non-empty event list the artifact has the first
\* event's field names as header and exactly one data row per event, in list
\* order, also when later events carry field names the first event lacks.
C17_OneRowPerEvent ==
    csvOut.st # "uncalled" =>
        /\ csvOut.header = csvIn[1].fields
        /\ Len(csvOut.rows) = Len(csvIn)
        /\ \A i \in 1 .. Len(csvIn) : C17_RowOf(i)

\* C17 amended: the header is the first event's field names; when no event
\* carries a field name the first event lacks there is exactly one row per
\* event in list order; otherwise generate_csv raises at the first such event
\* and the artifact holds the rows of the events before it only.
C17_RowsUntilStranger ==
    csvOut.st # "uncalled" =>
        /\ csvOut.header = csvIn[1].fields
        /\ IF C17_Strangers = {}
             THEN /\ csvOut.st = "returned"
                  /\ Len(csvOut.rows) = Len(csvIn)
             ELSE /\ csvOut.st = "raised"
                  /\ \E i \in C17_Strangers :
                         /\ \A j \in C17_Strangers : i <= j
                         /\ Len(csvOut.rows) = i - 1
        /\ \A i \in 1 .. Len(csvOut.rows) : C17_RowOf(i)

\* The third event of a list carries a field name the first lacks, and the
\* second lacks one the first has: two rows are written, one with an empty
\* cell, and the call raises.
C17_Witness ==
    /\ csvOut.st = "raised"
    /\ Len(csvIn) = 3
    /\ Len(csvOut.rows) = 2
    /\ \E f \in csvOut.header : csvOut.rows[2][f] = 0

\* ------------------------------------------------------------------- C18
\* The upload of an artifact written for key k has failed.
C18_UploadFailed(k) ==
    \E t \in TimerIds :
        timers[t].key = k /\ timers[t].st = "done" /\ ExportsBy(t) # <<>>

\* The artifact of a failed upload is neither deleted nor overwritten.
C18_Retained ==
    \A k \in Keys : C18_UploadFailed(k) => files'[k] = files[k]

\* The step in which an upload fails changes no window and no other Timer.
C18_OthersUntouched ==
    \A t \in TimerIds :
        (timers[t].st = "upload" /\ timers'[t].st = "done") =>
            /\ UNCHANGED <<bulk_events, bulk_timers, heap>>
            /\ \A u \in TimerIds \ {t} : timers'[u] = timers[u]

\* C18: when the upload for a flushed window fails, no retry is made and the
\* local artifact of that window is retained: no later operation deletes or
\* overwrites it, the export of a later window for the same key included;
\* and the failure alters no window or timer of another key.
C18_ArtifactRetained == [][C18_Retained /\ C18_OthersUntouched]_vars

\* ------------------------------------------------------------------- C19
\* The process is over.
Exited == mainpc \in {"exited", "crashed"}

\* The ids of the events handed to generate_csv so far.
ExportedIds == UNION {Ids(exports[i].events) : i \in 1 .. Len(exports)}

\* C19 as stated: a window that is still open (its Timer has not fired)
\* when signal_handler is entered for a termination signal is never exported.
C19_OpenAtSignalNeverExported ==
    \A t \in TimerIds :
        []((mainpc = "sig_close" /\ timers[t].st = "waiting")
               => [](ExportsBy(t) = <<>>))

\* At exit an open window has not been exported and its events are in no
\* artifact.
C19_Inv ==
    Exited =>
        /\ \A t \in TimerIds : timers[t].st = "waiting" => ExportsBy(t) = <<>>
        /\ \A k \in DOMAIN bulk_events \cap DOMAIN bulk_timers :
               timers[bulk_timers[k]].st = "waiting"
                   => Ids(heap[bulk_events[k]]) \cap ExportedIds = {}

\* A step of signal_handler neither flushes a window nor cancels a Timer, and
\* once the process is over nothing is exported and no Timer fires.
C19_Frame ==
    /\ (mainpc \in HandlerPcs \cup {"pause"} /\ mainpc' # mainpc) =>
           UNCHANGED <<bulk_events, bulk_timers, heap, timers, exports, files>>
    /\ Exited => UNCHANGED <<bulk_events, bulk_timers, heap, timers, exports, files>>

\* C19 amended: a window whose Timer has not fired when the process exits is
\* never exported; signal_handler neither flushes nor cancels the Timers, and
\* after the exit no export occurs.
C19_DiscardOnShutdown == [](C19_Inv) /\ [][C19_Frame]_vars

\* The process has exited by sys.exit(0) with a window open.
C19_Witness ==
    /\ mainpc = "exited"
    /\ \E t \in TimerIds :
           /\ timers[t].st = "waiting"
           /\ AppendedTo(t) # <<>>
           /\ timers[t].key \in DOMAIN bulk_events
           /\ heap[bulk_events[timers[t].key]] # <<>>

\* ------------------------------------------------------------------- C20
\* Timer t is executing generate_csv or the upload call.
Exporting(t) == timers[t].st \in {"csv", "upload"}

C20_Inv ==
    \* a thread in export I/O does not hold bulk_lock
    /\ \A t \in TimerIds : Exporting(t) => bulk_lock # t
    \* bulk_lock is held only inside the two `with bulk_lock:` blocks
    /\ \A t \in TimerIds : bulk_lock = t => timers[t].st = "pop_timer"
    /\ bulk_lock = ConsumerThread =>
           cpc \in {"add_create", "add_timer", "add_append"}
    \* so, during an export, add_bulk_event and the flush of another window
    \* wait for nothing but those blocks
    /\ (Running /\ bulk_lock = Free /\ cpc = "add_acquire") => ENABLED AddAcquire
    /\ \A u \in TimerIds :
           (Running /\ bulk_lock = Free /\ timers[u].st = "acquire")
               => ENABLED ExportPopEvents(u)
    \* no export is made of an empty list
    /\ \A i \in 1 .. Len(exports) : exports[i].events # <<>>

\* The step that calls generate_csv is taken without the lock and leaves the
\* lock alone; a step that ends export_bulk_events on an empty list exports
\* nothing.
C20_Frame ==
    \A t \in TimerIds :
        /\ (timers[t].st = "csv" /\ timers'[t].st # "csv") =>
               /\ bulk_lock # t /\ bulk_lock' = bulk_lock
               /\ heap[timers[t].events] = <<>> =>
                      (exports' = exports /\ files' = files)
        /\ (timers[t].st = "upload" /\ timers'[t].st # "upload") =>
               bulk_lock # t /\ bulk_lock' = bulk_lock

\* C20: export I/O never holds the shared lock.  Whenever generate_csv or the
\* upload is executing for some key, that thread does not hold bulk_lock, so
\* add_bulk_event for any key and flushes of other keys can proceed; and a
\* detached buffer whose list is empty triggers no export.
C20_ExportOutsideLock == [](C20_Inv) /\ [][C20_Frame]_vars

\* While a Timer thread is in export I/O for a key, the consumer thread holds
\* the lock inside add_bulk_event for the same key, and another Timer has
\* fired.
C20_Witness ==
    \E t, u \in TimerIds :
        /\ Exporting(t)
        /\ bulk_lock = ConsumerThread
        /\ cpc = "add_append"
        /\ cmsg.JourneyID = timers[t].key
        /\ u # t /\ timers[u].st = "acquire"

====
